---- MODULE Spec2Model ----
(***************************************************************************)
(* Model of the Minesweeper knowledge engine in minesweeper.py:            *)
(* class Minesweeper (the board), class Sentence and class MinesweeperAI.  *)
(* A call of MinesweeperAI.add_knowledge is a sequence of steps: the call  *)
(* itself (lines 197-225), one step per cell marked in the mark phase      *)
(* (lines 229-235), one step per derive phase (lines 237-256), one step    *)
(* per sweep of the empty-sentence removal loop (lines 262-266) and the    *)
(* final de-duplication (lines 268-272).                                   *)
(***************************************************************************)
EXTENDS Integers, Sequences, FiniteSets, TLC

\* ------------------------------------------------------------------ bounds
\* board sizes (height, width) the constructors are called with
Sizes == {<<1, 3>>, <<2, 3>>}
\* largest number of mines Minesweeper(height, width, mines) is built with
MaxMines == 2
\* largest count a caller passes besides the board's own count
MaxCount == 3
\* passes of the closure loop `while counter == 0` followed in one call
MaxPasses == 5
\* calls of mark_mine / mark_safe made from outside add_knowledge
MaxMarks == 1
\* add_knowledge calls whose count is not the board's count
MaxLies == 1
\* the wider board (height, width) some runs are made on
WideSize == <<2, 4>>
\* add_knowledge calls made in a run on the wider board
MaxWideCalls == 4

\* ------------------------------------------------------------------ values
\* no cell: the argument slot outside a call
NoCell == <<>>
\* Python's None as a return value: a pair that is no board cell
None == <<-1, -1>>
\* the value a call returned, with the name of the call
Returned(op, value) == [op |-> op, value |-> value]
\* no make_*_move call has returned since the last change of state
NoResult == Returned("none", None)

VARIABLES
    height,         \* MinesweeperAI.height (= Minesweeper.height)
    width,          \* MinesweeperAI.width  (= Minesweeper.width)
    board,          \* Minesweeper.mines: the cells that hold a mine
    moves_made,     \* MinesweeperAI.moves_made
    mines,          \* MinesweeperAI.mines
    safes,          \* MinesweeperAI.safes
    knowledge,      \* MinesweeperAI.knowledge: list of sentences
    pc,             \* position inside add_knowledge, "idle" outside a call
    arg_cell,       \* argument `cell` of the running add_knowledge call
    arg_count,      \* argument `count` of the running add_knowledge call
    idx,            \* position of `for sentence in self.knowledge` (line 229)
    todo,           \* cells of known_mines()/known_safes() still to be marked
    cells_changed,  \* local cells_changed (line 228)
    passes,         \* passes of `while counter == 0` completed in the last call
    tracker,        \* local tracker (line 258)
    raised,         \* the last add_knowledge call ended with KeyError
    result,         \* value returned by the last make_*_move call
    lies,           \* calls so far whose count was not nearby_mines(cell)
    ext_marks       \* number of mark_mine/mark_safe calls made by the caller

vars == <<height, width, board, moves_made, mines, safes, knowledge, pc,
          arg_cell, arg_count, idx, todo, cells_changed, passes, tracker,
          raised, result, lies, ext_marks>>

\* ------------------------------------------------------------ class Minesweeper
AllCells(h, w) == {<<i, j>> : i \in 0..(h - 1), j \in 0..(w - 1)}

Cells == AllCells(height, width)

\* cells within one row and column of `cell`, in bounds, without `cell`
surrounding_cells(cell) ==
    {c \in {<<i, j>> : i \in (cell[1] - 1)..(cell[1] + 1),
                       j \in (cell[2] - 1)..(cell[2] + 1)} :
        /\ c # cell
        /\ 0 <= c[1] /\ c[1] < height
        /\ 0 <= c[2] /\ c[2] < width}

is_mine(cell) == cell \in board

nearby_mines(cell) == Cardinality({c \in surrounding_cells(cell) : is_mine(c)})

\* --------------------------------------------------------------- class Sentence
Sentence(cells, count) == [cells |-> cells, count |-> count]

\* changed: every cell of a sentence with a positive count is a known mine
known_mines_positive(s) == IF s.count >= 1 THEN s.cells ELSE {}

known_mines(s) == IF Cardinality(s.cells) = s.count THEN s.cells ELSE {}

\* changed: no cell of a sentence is ever known to be safe
known_safes_none(s) == {}

known_safes(s) == IF s.count = 0 THEN s.cells ELSE {}

\* changed: the cell is removed and the count is left as it was
Sentence_mark_mine_keeps_count(s, cell) ==
    IF cell \in s.cells
    THEN Sentence(s.cells \ {cell}, s.count)
    ELSE s

Sentence_mark_mine(s, cell) ==
    IF cell \in s.cells
    THEN Sentence(s.cells \ {cell}, s.count - 1)
    ELSE s

\* changed: removing a safe cell lowers the count as removing a mine does
Sentence_mark_safe_decrements(s, cell) ==
    IF cell \in s.cells
    THEN Sentence(s.cells \ {cell}, s.count - 1)
    ELSE s

Sentence_mark_safe(s, cell) ==
    IF cell \in s.cells
    THEN Sentence(s.cells \ {cell}, s.count)
    ELSE s

\* ---------------------------------------------------------- list operations
Range(seq) == {seq[i] : i \in 1..Len(seq)}

\* list.remove(x): drop the first element equal to x
RECURSIVE ListRemove(_, _)
ListRemove(seq, x) ==
    IF seq = <<>> THEN <<>>
    ELSE IF Head(seq) = x THEN Tail(seq)
    ELSE <<Head(seq)>> \o ListRemove(Tail(seq), x)

\* the effect of MinesweeperAI.mark_mine / mark_safe on the sentence list
\* changed: every sentence loses the cell and one of its count, with no test
\* `cell in self.cells`
MarkMineAll_no_test(kb, cell) ==
    [i \in 1..Len(kb) |-> Sentence(kb[i].cells \ {cell}, kb[i].count - 1)]

MarkMineAll(kb, cell) == [i \in 1..Len(kb) |-> Sentence_mark_mine(kb[i], cell)]

\* changed: the loop over the sentences stops after the first one
MarkSafeAll_first_only(kb, cell) ==
    [i \in 1..Len(kb) |->
        IF i = 1 THEN Sentence_mark_safe(kb[i], cell) ELSE kb[i]]

MarkSafeAll(kb, cell) == [i \in 1..Len(kb) |-> Sentence_mark_safe(kb[i], cell)]

\* ------------------------------------------------- add_knowledge, lines 213-223
\* the loop `for cell in surrounding_cells` removes a neighbour twice, and
\* set.remove raises KeyError, when the neighbour is a known mine and a known safe
\* changed: a neighbour that is a known mine is removed twice
new_sentence_raises_on_mine(around, m, s) == around \cap m # {}

new_sentence_raises(around, m, s) == around \cap m \cap s # {}

\* changed: known mines are dropped and the count is left as it was
new_sentence_keeps_count(around, count, m, s) ==
    Sentence(around \ (m \cup s), count)

new_sentence(around, count, m, s) ==
    Sentence(around \ (m \cup s), count - Cardinality(around \cap m))

\* ------------------------------------------------- add_knowledge, lines 237-245
\* new_sentences: one derived sentence per ordered pair (sentence1, sentence2)
\* with cells1 a proper subset of cells2, in the order of the two loops
\* changed: the test `cells1 != cells2` is left out
derives_any_subset(s1, s2) == s1.cells \subseteq s2.cells

derives(s1, s2) == s1.cells \subseteq s2.cells /\ s1.cells # s2.cells

\* changed: the derived sentence keeps the count of sentence2
RECURSIVE derived_from_keeps_count(_, _, _)
derived_from_keeps_count(kb, i, j) ==
    IF j > Len(kb) THEN <<>>
    ELSE IF derives(kb[i], kb[j])
         THEN <<Sentence(kb[j].cells \ kb[i].cells, kb[j].count)>>
                  \o derived_from_keeps_count(kb, i, j + 1)
         ELSE derived_from_keeps_count(kb, i, j + 1)

\* the inner loop `for sentence2 in self.knowledge` for sentence1 = kb[i]
RECURSIVE derived_from(_, _, _)
derived_from(kb, i, j) ==
    IF j > Len(kb) THEN <<>>
    ELSE IF derives(kb[i], kb[j])
         THEN <<Sentence(kb[j].cells \ kb[i].cells, kb[j].count - kb[i].count)>>
                  \o derived_from(kb, i, j + 1)
         ELSE derived_from(kb, i, j + 1)

\* changed: sentence2 runs over the sentences after sentence1 only
RECURSIVE new_sentences_from_later(_, _)
new_sentences_from_later(kb, i) ==
    IF i > Len(kb) THEN <<>>
    ELSE derived_from(kb, i, i + 1) \o new_sentences_from_later(kb, i + 1)

\* the outer loop `for sentence1 in self.knowledge`
RECURSIVE new_sentences_from(_, _)
new_sentences_from(kb, i) ==
    IF i > Len(kb) THEN <<>>
    ELSE derived_from(kb, i, 1) \o new_sentences_from(kb, i + 1)

new_sentences(kb) == new_sentences_from(kb, 1)

\* lines 247-253: append every new sentence that is not yet in the list
RECURSIVE append_new(_, _)
append_new(kb, news) ==
    IF news = <<>> THEN kb
    ELSE IF Head(news) \in Range(kb)
         THEN append_new(kb, Tail(news))
         ELSE append_new(Append(kb, Head(news)), Tail(news))

\* ------------------------------------------------- add_knowledge, lines 258-266
count_empty(kb) == Cardinality({i \in 1..Len(kb) : kb[i].cells = {}})

\* changed: the sweep removes the empty sentences and leaves tracker as it was
RECURSIVE remove_sweep_keeps_tracker(_, _, _)
remove_sweep_keeps_tracker(kb, i, t) ==
    IF i > Len(kb) THEN [knowledge |-> kb, tracker |-> t]
    ELSE IF kb[i].cells = {}
         THEN remove_sweep_keeps_tracker(ListRemove(kb, kb[i]), i + 1, t)
         ELSE remove_sweep_keeps_tracker(kb, i + 1, t)

\* one execution of `for sentence in self.knowledge` at line 263: the list
\* iterator holds a position, list.remove shifts the rest of the list left
RECURSIVE remove_sweep(_, _, _)
remove_sweep(kb, i, t) ==
    IF i > Len(kb) THEN [knowledge |-> kb, tracker |-> t]
    ELSE IF kb[i].cells = {}
         THEN remove_sweep(ListRemove(kb, kb[i]), i + 1, t - 1)
         ELSE remove_sweep(kb, i + 1, t)

\* ------------------------------------------------- add_knowledge, lines 268-272
\* changed: the list is kept as it is
keep_duplicates(kb, acc) == kb

RECURSIVE no_duplicates(_, _)
no_duplicates(kb, acc) ==
    IF kb = <<>> THEN acc
    ELSE IF Head(kb) \in Range(acc)
         THEN no_duplicates(Tail(kb), acc)
         ELSE no_duplicates(Tail(kb), Append(acc, Head(kb)))

\* ------------------------------------------------------------------- Init
Init ==
    /\ \E hw \in Sizes : height = hw[1] /\ width = hw[2]
    /\ \E n \in 0..MaxMines :
           board \in {b \in SUBSET AllCells(height, width) : Cardinality(b) = n}
    /\ moves_made = {}
    /\ mines = {}
    /\ safes = {}
    /\ knowledge = <<>>
    /\ pc = "idle"
    /\ arg_cell = NoCell
    /\ arg_count = 0
    /\ idx = 0
    /\ todo = {}
    /\ cells_changed = {}
    /\ passes = 0
    /\ tracker = 0
    /\ raised = FALSE
    /\ result = NoResult
    /\ lies = 0
    /\ ext_marks = 0

\* counts a caller passes for `cell`: the board's count, or any small count
Counts(cell) == (0..MaxCount) \cup {nearby_mines(cell)}

\* changed: the known safes of a sentence are not looked at
Decidable_mines_only(s) == known_mines(s) # {}

\* a sentence the mark phase acts on: it has known mines or known safes
Decidable(s) == known_mines(s) # {} \/ known_safes(s) # {}

\* first position at or after i whose sentence has known mines or known safes
NextDecidable(kb, i) ==
    IF \E j \in i..Len(kb) : Decidable(kb[j])
    THEN CHOOSE j \in i..Len(kb) :
             /\ Decidable(kb[j])
             /\ \A k \in i..(j - 1) : ~Decidable(kb[k])
    ELSE 0

\* changed: the cell is recorded as a move and not added to safes
reveal_not_safe(cell) ==
    [moves_made |-> moves_made \cup {cell},
     safes      |-> safes,
     knowledge  |-> MarkSafeAll(knowledge, cell)]

\* add_knowledge, lines 198-201: the cell is a move made and a safe cell, and
\* mark_safe takes it out of every sentence
reveal(cell) ==
    [moves_made |-> moves_made \cup {cell},
     safes      |-> safes \cup {cell},
     knowledge  |-> MarkSafeAll(knowledge, cell)]

\* ---------------------------------------------------------------- actions
\* add_knowledge(cell, count), lines 197-225: a cell that is not a mine and
\* was not added before
add_knowledge(cell, count) ==
    /\ pc = "idle"
    /\ cell \notin moves_made
    /\ ~is_mine(cell)
    /\ moves_made' = reveal(cell).moves_made
    /\ safes' = reveal(cell).safes
    /\ lies' = IF count = nearby_mines(cell) THEN lies ELSE lies + 1
    /\ lies' <= MaxLies
    /\ lies' # 0 => ext_marks = 0
    /\ result' = NoResult
    /\ cells_changed' = {}
    /\ todo' = {}
    /\ passes' = 0
    /\ tracker' = 0
    /\ IF new_sentence_raises(surrounding_cells(cell), mines, safes')
       THEN /\ knowledge' = reveal(cell).knowledge
            /\ raised' = TRUE
            /\ pc' = "idle"
            /\ arg_cell' = NoCell
            /\ arg_count' = 0
            /\ idx' = 0
       ELSE /\ knowledge' = Append(reveal(cell).knowledge,
                                   new_sentence(surrounding_cells(cell), count,
                                                mines, safes'))
            /\ raised' = FALSE
            /\ pc' = "mark"
            /\ arg_cell' = cell
            /\ arg_count' = count
            /\ idx' = 1
    /\ UNCHANGED <<height, width, board, mines, ext_marks>>

AddKnowledge ==
    \E cell \in Cells : \E count \in Counts(cell) : add_knowledge(cell, count)

\* line 229-230 / 233: the sentence loop reaches the next sentence that has
\* known mines or known safes (the sentences before it change nothing)
VisitSentence ==
    /\ pc = "mark"
    /\ NextDecidable(knowledge, idx) # 0
    /\ LET j == NextDecidable(knowledge, idx)
       IN  /\ idx' = j
           /\ IF known_mines(knowledge[j]) # {}
              THEN pc' = "mines" /\ todo' = known_mines(knowledge[j])
              ELSE pc' = "safes" /\ todo' = known_safes(knowledge[j])
    /\ UNCHANGED <<height, width, board, moves_made, mines, safes, knowledge,
                   arg_cell, arg_count, cells_changed, passes, tracker,
                   raised, result, lies, ext_marks>>

\* lines 230-232: one iteration of `for cell in sentence.known_mines()`;
\* after the last one line 233 evaluates sentence.known_safes()
MarkKnownMine ==
    /\ pc = "mines"
    /\ \E cell \in todo :
           /\ mines' = mines \cup {cell}
           /\ knowledge' = MarkMineAll(knowledge, cell)
           /\ cells_changed' = cells_changed \cup {cell}
           /\ IF todo \ {cell} # {}
              THEN /\ todo' = todo \ {cell}
                   /\ pc' = "mines"
                   /\ idx' = idx
              ELSE IF known_safes(knowledge'[idx]) # {}
                   THEN /\ todo' = known_safes(knowledge'[idx])
                        /\ pc' = "safes"
                        /\ idx' = idx
                   ELSE /\ todo' = {}
                        /\ pc' = "mark"
                        /\ idx' = idx + 1
    /\ UNCHANGED <<height, width, board, moves_made, safes, arg_cell,
                   arg_count, passes, tracker, raised, result, lies,
                   ext_marks>>

\* lines 233-235: one iteration of `for cell in sentence.known_safes()`
MarkKnownSafe ==
    /\ pc = "safes"
    /\ \E cell \in todo :
           /\ safes' = safes \cup {cell}
           /\ knowledge' = MarkSafeAll(knowledge, cell)
           /\ cells_changed' = cells_changed \cup {cell}
           /\ todo' = todo \ {cell}
           /\ IF todo \ {cell} # {}
              THEN pc' = "safes" /\ idx' = idx
              ELSE pc' = "mark" /\ idx' = idx + 1
    /\ UNCHANGED <<height, width, board, moves_made, mines, arg_cell,
                   arg_count, passes, tracker, raised, result, lies,
                   ext_marks>>

\* lines 237-256, reached when the sentence loop is exhausted: derive, append,
\* and either start the next pass or leave the loop (lines 258-261)
Derive ==
    /\ pc = "mark"
    /\ NextDecidable(knowledge, idx) = 0
    /\ passes < MaxPasses
    /\ LET kb == append_new(knowledge, new_sentences(knowledge))
           changes_made == Len(kb) - Len(knowledge)
       IN  /\ knowledge' = kb
           /\ passes' = passes + 1
           /\ cells_changed' = {}
           /\ IF Cardinality(cells_changed) = 0 /\ changes_made = 0
              THEN /\ pc' = "tidy"
                   /\ idx' = 0
                   /\ tracker' = count_empty(kb)
              ELSE /\ pc' = "mark"
                   /\ idx' = 1
                   /\ tracker' = tracker
    /\ UNCHANGED <<height, width, board, moves_made, mines, safes, arg_cell,
                   arg_count, todo, raised, result, lies, ext_marks>>

\* lines 262-266: one sweep of the removal loop
RemoveEmpty ==
    /\ pc = "tidy"
    /\ tracker # 0
    /\ LET r == remove_sweep(knowledge, 1, tracker)
       IN  knowledge' = r.knowledge /\ tracker' = r.tracker
    /\ UNCHANGED <<height, width, board, moves_made, mines, safes, pc,
                   arg_cell, arg_count, idx, todo, cells_changed, passes,
                   raised, result, lies, ext_marks>>

\* lines 268-272 and the return of add_knowledge
RemoveDuplicates ==
    /\ pc = "tidy"
    /\ tracker = 0
    /\ knowledge' = no_duplicates(knowledge, <<>>)
    /\ pc' = "idle"
    /\ arg_cell' = NoCell
    /\ arg_count' = 0
    /\ UNCHANGED <<height, width, board, moves_made, mines, safes, idx, todo,
                   cells_changed, passes, tracker, raised, result, lies,
                   ext_marks>>

\* MinesweeperAI.mark_mine(cell) called from outside add_knowledge
mark_mine(cell) ==
    /\ pc = "idle"
    /\ ext_marks < MaxMarks
    /\ lies = 0
    /\ ext_marks' = ext_marks + 1
    /\ mines' = mines \cup {cell}
    /\ knowledge' = MarkMineAll(knowledge, cell)
    /\ result' = NoResult
    /\ UNCHANGED <<height, width, board, moves_made, safes, pc, arg_cell,
                   arg_count, idx, todo, cells_changed, passes, tracker,
                   raised, lies>>

MarkMine == \E cell \in Cells : mark_mine(cell)

\* MinesweeperAI.mark_safe(cell) called from outside add_knowledge
mark_safe(cell) ==
    /\ pc = "idle"
    /\ ext_marks < MaxMarks
    /\ lies = 0
    /\ ext_marks' = ext_marks + 1
    /\ safes' = safes \cup {cell}
    /\ knowledge' = MarkSafeAll(knowledge, cell)
    /\ result' = NoResult
    /\ UNCHANGED <<height, width, board, moves_made, mines, pc, arg_cell,
                   arg_count, idx, todo, cells_changed, passes, tracker,
                   raised, lies>>

MarkSafe == \E cell \in Cells : mark_safe(cell)

\* make_safe_move(), lines 283-289
\* changed: the moves made are not taken out
all_safes == safes

safe_moves == safes \ moves_made

\* changed: the moves made are taken out of self.safes in place
make_safe_move_in_place ==
    /\ pc = "idle"
    /\ safes' = safes \ moves_made
    /\ IF Cardinality(safes') = 0
       THEN result' = Returned("make_safe_move", None)
       ELSE \E move \in safes' : result' = Returned("make_safe_move", move)
    /\ UNCHANGED <<height, width, board, moves_made, mines, knowledge,
                   pc, arg_cell, arg_count, idx, todo, cells_changed, passes,
                   tracker, raised, lies, ext_marks>>

make_safe_move ==
    /\ pc = "idle"
    /\ IF Cardinality(safe_moves) = 0
       THEN result' = Returned("make_safe_move", None)
       ELSE \E move \in safe_moves : result' = Returned("make_safe_move", move)
    /\ UNCHANGED <<height, width, board, moves_made, mines, safes, knowledge,
                   pc, arg_cell, arg_count, idx, todo, cells_changed, passes,
                   tracker, raised, lies, ext_marks>>

\* make_random_move(), lines 298-308
\* changed: the known mines are not taken out
unmade_moves == AllCells(height, width) \ moves_made

possible_moves == (AllCells(height, width) \ moves_made) \ mines

make_random_move ==
    /\ pc = "idle"
    /\ IF Cardinality(possible_moves) = 0
       THEN result' = Returned("make_random_move", None)
       ELSE \E move \in possible_moves : result' = Returned("make_random_move", move)
    /\ UNCHANGED <<height, width, board, moves_made, mines, safes, knowledge,
                   pc, arg_cell, arg_count, idx, todo, cells_changed, passes,
                   tracker, raised, lies, ext_marks>>

Closure == VisitSentence \/ MarkKnownMine \/ MarkKnownSafe \/ Derive

Tidy == RemoveEmpty \/ RemoveDuplicates

Next ==
    \/ AddKnowledge
    \/ VisitSentence
    \/ MarkKnownMine
    \/ MarkKnownSafe
    \/ Derive
    \/ RemoveEmpty
    \/ RemoveDuplicates
    \/ MarkMine
    \/ MarkSafe
    \/ make_safe_move
    \/ make_random_move

\* every call of the interface of MinesweeperAI
Spec == Init /\ [][Next]_vars

\* the runs made of add_knowledge calls alone
NextCalls ==
    \/ AddKnowledge
    \/ VisitSentence
    \/ MarkKnownMine
    \/ MarkKnownSafe
    \/ Derive
    \/ RemoveEmpty
    \/ RemoveDuplicates

\* a call that has started is run to its end: the engine is single-threaded
\* and synchronous, nothing suspends the loops of add_knowledge
FairSpec ==
    Init /\ [][NextCalls]_vars /\ WF_vars(Closure) /\ WF_vars(Tidy)

\* the wider board turned over: rows swapped (fi), columns swapped (fj)
Flipped(b, fi, fj) ==
    {<<IF fi THEN WideSize[1] - 1 - c[1] ELSE c[1],
       IF fj THEN WideSize[2] - 1 - c[2] ELSE c[2]>> : c \in b}

\* a set of cells of the wider board as a number, one bit per cell
RECURSIVE CellBits(_)
CellBits(b) ==
    IF b = {} THEN 0
    ELSE LET c == CHOOSE x \in b : TRUE
         IN  2 ^ (c[1] * WideSize[2] + c[2]) + CellBits(b \ {c})

\* one mine placement of the wider board for each class of placements that
\* are the same up to swapping rows and swapping columns
WideBoards ==
    {b \in SUBSET AllCells(WideSize[1], WideSize[2]) :
        /\ Cardinality(b) <= MaxMines
        /\ \A fi, fj \in BOOLEAN : CellBits(b) <= CellBits(Flipped(b, fi, fj))}

\* a fresh MinesweeperAI on the wider board
InitWide ==
    /\ height = WideSize[1] /\ width = WideSize[2]
    /\ board \in WideBoards
    /\ moves_made = {}
    /\ mines = {}
    /\ safes = {}
    /\ knowledge = <<>>
    /\ pc = "idle"
    /\ arg_cell = NoCell
    /\ arg_count = 0
    /\ idx = 0
    /\ todo = {}
    /\ cells_changed = {}
    /\ passes = 0
    /\ tracker = 0
    /\ raised = FALSE
    /\ result = NoResult
    /\ lies = 0
    /\ ext_marks = 0

\* the runs of at most MaxWideCalls add_knowledge calls
NextWide == NextCalls /\ Cardinality(moves_made') <= MaxWideCalls

WideSpec == InitWide /\ [][NextWide]_vars

\* ------------------------------------------------------------------ claims
\* the counts passed so far were the board's counts
Truthful == lies = 0

\* C1, as stated: after any sequence of add_knowledge calls (cell in bounds,
\* not added before, not a mine of the board, any count) no cell is both a
\* known mine and a known safe.
C1_DisjointAnyCount == pc = "idle" => mines \cap safes = {}

\* C1, amended: after any sequence of add_knowledge calls whose counts are the
\* board's neighbour-mine counts, no cell is both in mines and in safes.
C1_DisjointTrueCounts == (pc = "idle" /\ Truthful) => mines \cap safes = {}

\* C1 witness: truthful calls have returned with known mines and known safes.
C1_Witness ==
    /\ pc = "idle" /\ Truthful
    /\ Cardinality(moves_made) >= 2
    /\ mines # {}
    /\ safes \ moves_made # {}

\* C2, as stated: every add_knowledge call (any count) returns.
C2_ReturnsAnyCount == (pc # "idle") ~> (pc = "idle")

\* C2, amended: every add_knowledge call in a run whose counts are the
\* board's neighbour-mine counts returns: the closure loop reaches a pass
\* that changes nothing and the removal loop then exits.
C2_ReturnsTrueCounts == (pc # "idle" /\ Truthful) ~> (pc = "idle")

\* C2 witness: a truthful call has left the closure loop after three passes
\* or more and has empty sentences to remove.
C2_Witness == pc = "tidy" /\ Truthful /\ passes >= 3 /\ tracker > 0

\* ---- C3
NoEmptySentence(kb) == \A i \in 1..Len(kb) : kb[i].cells # {}

NoEqualSentences(kb) ==
    \A i, j \in 1..Len(kb) :
        i # j => ~(kb[i].cells = kb[j].cells /\ kb[i].count = kb[j].count)

\* the step on which add_knowledge returns
Returns == pc = "tidy" /\ pc' = "idle"

\* C3: whenever an add_knowledge call returns, the knowledge base holds no
\* sentence with an empty cell set and no two sentences with equal cells and
\* equal counts.
C3_TidyAtReturn ==
    [][Returns => (NoEmptySentence(knowledge') /\ NoEqualSentences(knowledge'))]_vars

\* C3 witness: a call has gone through the closure and returned, and left
\* two sentences or more.
C3_Witness ==
    /\ pc = "idle" /\ ~raised /\ ext_marks = 0
    /\ passes >= 2
    /\ Len(knowledge) >= 2
    /\ NoEmptySentence(knowledge) /\ NoEqualSentences(knowledge)

\* ---- C4
\* the mine placements under which every cell played so far is no mine and
\* has the count the board gave for it
ConsistentPlacements ==
    {P \in SUBSET Cells :
        \A c \in moves_made :
            /\ c \notin P
            /\ Cardinality(surrounding_cells(c) \cap P) = nearby_mines(c)}

LogicallySafe(c) == \A P \in ConsistentPlacements : c \notin P

\* C4: after add_knowledge calls with the board's counts, if some unplayed
\* cell is free of mines in every placement consistent with the observations,
\* make_safe_move() returns a cell and not None.
C4_NoGuessWhenSafeExists ==
    ( /\ result.op = "make_safe_move"
      /\ Truthful /\ ext_marks = 0
      /\ \E c \in Cells \ moves_made : LogicallySafe(c) )
    => result.value # None

\* ---- C5
SubsetClosed(kb) ==
    \A i, j \in 1..Len(kb) :
        (kb[i].cells \subseteq kb[j].cells /\ kb[i].cells # kb[j].cells)
        => \E k \in 1..Len(kb) :
               /\ kb[k].cells = kb[j].cells \ kb[i].cells
               /\ kb[k].count = kb[j].count - kb[i].count

\* the step that ends a pass of the closure loop (lines 237-256)
EndsPass == pc = "mark" /\ passes' = passes + 1

\* C5: when add_knowledge returns, for every two sentences S1, S2 of the
\* knowledge base with S1.cells a proper subset of S2.cells the sentence
\* (S2.cells - S1.cells, S2.count - S1.count) is in it too; and a derive phase
\* never appends a sentence with an empty cell set, which is what two
\* sentences with equal cell sets would produce.
C5_SubsetClosedAtReturn ==
    [][ /\ Returns => SubsetClosed(knowledge')
        /\ EndsPass => \A i \in (Len(knowledge) + 1)..Len(knowledge') :
                           knowledge'[i].cells # {} ]_vars

\* C5 witness: a call has returned and left a sentence whose cells are a
\* proper subset of another sentence's cells.
C5_Witness ==
    /\ pc = "idle" /\ ~raised /\ ext_marks = 0 /\ passes >= 1
    /\ \E i, j \in 1..Len(knowledge) :
           /\ knowledge[i].cells \subseteq knowledge[j].cells
           /\ knowledge[i].cells # knowledge[j].cells

\* ---- C6
\* all sentences are true of one mine placement
ConsistentKB(kb) ==
    \E P \in SUBSET Cells :
        \A i \in 1..Len(kb) : Cardinality(kb[i].cells \cap P) = kb[i].count

InFullSentence(c, kb) ==
    \E i \in 1..Len(kb) : c \in kb[i].cells /\ kb[i].count = Cardinality(kb[i].cells)

InZeroSentence(c, kb) ==
    \E i \in 1..Len(kb) : c \in kb[i].cells /\ kb[i].count = 0

\* C6: a cell that lies, at some point of a call, in a sentence whose count
\* is its number of cells (the sentences being true of one placement) is in
\* mines when the call returns, and a cell of a sentence with count 0 is in
\* safes: from that point on, step by step, the cell is marked or still lies
\* in such a sentence of a call that has not returned, and no cell ever
\* leaves mines or safes.
C6_DecidableCellsMarked ==
    [][ \A c \in Cells :
          /\ (pc # "idle" /\ ConsistentKB(knowledge) /\ InFullSentence(c, knowledge))
             => \/ c \in mines'
                \/ pc' # "idle" /\ ConsistentKB(knowledge')
                                /\ InFullSentence(c, knowledge')
          /\ (pc # "idle" /\ ConsistentKB(knowledge) /\ InZeroSentence(c, knowledge))
             => \/ c \in safes'
                \/ pc' # "idle" /\ ConsistentKB(knowledge')
                                /\ InZeroSentence(c, knowledge')
          /\ c \in mines => c \in mines'
          /\ c \in safes => c \in safes' ]_vars

\* C6 witness: a call has just appended its sentence, and a sentence that
\* was in the knowledge base before the call has as many cells as its count.
C6_Witness ==
    /\ pc = "mark" /\ passes = 0 /\ idx = 1
    /\ ConsistentKB(knowledge)
    /\ \E i \in 1..(Len(knowledge) - 1) :
           /\ knowledge[i].cells # {}
           /\ knowledge[i].count = Cardinality(knowledge[i].cells)

\* ---- C7
\* the in-bounds cells within one row and one column of `cell`, without it
Around(cell) ==
    {c \in Cells : /\ c # cell
                   /\ c[1] - cell[1] \in -1..1
                   /\ c[2] - cell[2] \in -1..1}

\* the step on which add_knowledge appends its new sentence
AppendsNew == pc = "idle" /\ pc' = "mark"

\* C7: the sentence add_knowledge(cell, count) appends has the cells
\* N - mines - safes and the count count - |N /\ mines|, N the neighbours of
\* cell; it is appended even when its cell set is empty.
C7_NewSentence ==
    [][AppendsNew =>
          /\ Len(knowledge') = Len(knowledge) + 1
          /\ knowledge'[Len(knowledge')].cells
                 = (Around(arg_cell') \ mines') \ safes'
          /\ knowledge'[Len(knowledge')].count
                 = arg_count' - Cardinality(Around(arg_cell') \cap mines')]_vars

\* C7 witness: a call has just appended a sentence with no cells, after
\* dropping a neighbour that is a known mine.
C7_Witness ==
    /\ pc = "mark" /\ passes = 0 /\ idx = 1
    /\ knowledge[Len(knowledge)].cells = {}
    /\ Around(arg_cell) \cap mines # {}

\* ---- C8
\* C8: in a run of add_knowledge calls with the board's counts, every
\* sentence of the knowledge base has 0 <= count <= number of cells, at every
\* step of a call and after it.
C8_CountWithinCells ==
    Truthful =>
        \A i \in 1..Len(knowledge) :
            /\ 0 <= knowledge[i].count
            /\ knowledge[i].count <= Cardinality(knowledge[i].cells)

\* C8 witness: a truthful call is marking cells in a later pass, with
\* derived sentences in the knowledge base.
C8_Witness ==
    /\ Truthful
    /\ pc \in {"mines", "safes"}
    /\ passes >= 1
    /\ Len(knowledge) >= 3

\* ---- C9
\* C9: after any sequence of add_knowledge, mark_mine and mark_safe calls
\* every cell of moves_made is in safes.
C9_MovesAreSafe == moves_made \subseteq safes

\* C9 witness: add_knowledge and mark calls have been made.
C9_Witness == pc = "idle" /\ Cardinality(moves_made) >= 2 /\ ext_marks > 0

\* ---- C10
\* C10: make_safe_move() returns None exactly when safes - moves_made is
\* empty, and otherwise a cell of safes that is not in moves_made.
C10_SafeMove ==
    result.op = "make_safe_move" =>
        /\ (result.value = None) <=> (safes \ moves_made = {})
        /\ result.value # None =>
               (result.value \in safes /\ result.value \notin moves_made)

\* C10 witness: with safes = {(0,0), (0,1)} and moves_made = {(0,0)} the call
\* has returned (0,1).
C10_Witness ==
    /\ result = Returned("make_safe_move", <<0, 1>>)
    /\ safes = {<<0, 0>>, <<0, 1>>}
    /\ moves_made = {<<0, 0>>}

\* ---- C11
\* C11: in every reachable state make_random_move() returns None exactly when
\* every board cell is in moves_made or in mines, and otherwise an in-bounds
\* cell that is neither in moves_made nor in mines; and every such cell can
\* be the value the call returns.
C11_RandomMove ==
    /\ result.op = "make_random_move" =>
           /\ (result.value = None) <=> (Cells \subseteq moves_made \cup mines)
           /\ result.value # None =>
                  /\ result.value \in Cells
                  /\ result.value \notin moves_made
                  /\ result.value \notin mines
    /\ pc = "idle" =>
           \A c \in Cells \ (moves_made \cup mines) :
               ENABLED (make_random_move
                           /\ result' = Returned("make_random_move", c))

\* C11 witness: the call has returned a cell while a mine is known and one
\* cell or more is neither played nor a known mine nor the cell returned.
C11_Witness ==
    /\ result.op = "make_random_move"
    /\ result.value # None
    /\ mines # {}
    /\ moves_made # {}
    /\ Cardinality(Cells \ (moves_made \cup mines)) >= 2

\* ---- C12
\* a step on which make_safe_move() or make_random_move() returns
Queries == result'.op \in {"make_safe_move", "make_random_move"}

\* C12: make_safe_move() and make_random_move() leave moves_made, mines, safes
\* and the knowledge base (sentences, cells, counts, order) as they were,
\* whether a cell or None is returned.
C12_QueriesChangeNothing ==
    [][Queries => UNCHANGED <<moves_made, mines, safes, knowledge>>]_vars

\* C12 witness: a query has returned while there were safe cells not yet
\* played and two sentences or more in the knowledge base.
C12_Witness ==
    /\ result.op \in {"make_safe_move", "make_random_move"}
    /\ safes \ moves_made # {}
    /\ Len(knowledge) >= 2

\* ---- C13
\* the effect of MinesweeperAI.mark_mine(c) / mark_safe(c) on the three fields
AfterMarkMine(m, s, kb, c) ==
    [mines |-> m \cup {c}, safes |-> s, knowledge |-> MarkMineAll(kb, c)]

AfterMarkSafe(m, s, kb, c) ==
    [mines |-> m, safes |-> s \cup {c}, knowledge |-> MarkSafeAll(kb, c)]

\* C13: mark_mine and mark_safe are idempotent, on a Sentence and on the
\* MinesweeperAI: from every reachable state and for every cell c, a second
\* mark_mine(c) leaves the mines, safes and sentences (cells and counts) the
\* first one left, and so for mark_safe(c); and after every step that is a
\* call mark_mine(c) or mark_safe(c), the same call again changes nothing.
C13_MarkIdempotent ==
    [][ \A c \in Cells :
          /\ \A i \in 1..Len(knowledge) :
                 /\ Sentence_mark_mine(Sentence_mark_mine(knowledge[i], c), c)
                        = Sentence_mark_mine(knowledge[i], c)
                 /\ Sentence_mark_safe(Sentence_mark_safe(knowledge[i], c), c)
                        = Sentence_mark_safe(knowledge[i], c)
          /\ LET once == AfterMarkMine(mines, safes, knowledge, c)
             IN  AfterMarkMine(once.mines, once.safes, once.knowledge, c) = once
          /\ LET once == AfterMarkSafe(mines, safes, knowledge, c)
             IN  AfterMarkSafe(once.mines, once.safes, once.knowledge, c) = once
          /\ mark_mine(c) =>
                 AfterMarkMine(mines', safes', knowledge', c)
                     = [mines |-> mines', safes |-> safes', knowledge |-> knowledge']
          /\ mark_safe(c) =>
                 AfterMarkSafe(mines', safes', knowledge', c)
                     = [mines |-> mines', safes |-> safes', knowledge |-> knowledge']
      ]_vars

\* C13 witness: mark_mine or mark_safe has been called from outside on a
\* neighbour of a played cell that the board's counts do not decide so, and a
\* sentence has a count below 0 or above its number of cells.
C13_Witness ==
    /\ pc = "idle" /\ ext_marks = 1 /\ ~raised
    /\ \E c \in (mines \ board) \cup ((safes \cap board) \ moves_made) :
           \E m \in moves_made : c \in Around(m)
    /\ \E i \in 1..Len(knowledge) :
           \/ knowledge[i].count < 0
           \/ knowledge[i].count > Cardinality(knowledge[i].cells)

\* ---- C14
\* passes of the closure loop followed for a reordered knowledge base
OrderPasses == 5

\* mark_mine / mark_safe for every cell of a set (one `for cell in ...` loop)
mark_mines(kb, cs) ==
    [i \in 1..Len(kb) |->
        Sentence(kb[i].cells \ cs, kb[i].count - Cardinality(kb[i].cells \cap cs))]

mark_safes(kb, cs) ==
    [i \in 1..Len(kb) |-> Sentence(kb[i].cells \ cs, kb[i].count)]

\* the rest of the loop body for the sentence at position i, lines 233-235,
\* after its known mines are marked
mark_known_safes(st, i) ==
    LET ks == known_safes(st.knowledge[i])
    IN  [mines |-> st.mines,
         safes |-> st.safes \cup ks,
         knowledge |-> mark_safes(st.knowledge, ks),
         changed |-> st.changed \cup ks]

\* the loop body for the sentence at position i, lines 230-235
mark_known(st, i) ==
    LET km == known_mines(st.knowledge[i])
    IN  CHOOSE r \in {mark_known_safes(x, i) :
                         x \in {[mines |-> st.mines \cup km,
                                  safes |-> st.safes,
                                  knowledge |-> mark_mines(st.knowledge, km),
                                  changed |-> st.changed \cup km]}} : TRUE

\* `for sentence in self.knowledge` of line 229 from position i on
RECURSIVE mark_sweep(_, _)
mark_sweep(st, i) ==
    IF i > Len(st.knowledge) THEN st
    ELSE CHOOSE r \in {mark_sweep(x, i + 1) : x \in {mark_known(st, i)}} : TRUE

\* what a call leaves when it returns, lines 258-272 taken together: the
\* sentences with cells, each once
Outcome(m, s, kb) ==
    [returns |-> TRUE, mines |-> m, safes |-> s,
     sentences |-> {x \in Range(kb) : x.cells # {}}]

\* the call is still in its closure loop after the passes followed
NoOutcome == [returns |-> FALSE, mines |-> {}, safes |-> {}, sentences |-> {}]

\* the closure loop from the end of a mark sweep on (lines 237-256 and then
\* the next passes), following at most `fuel` derive phases; a value that is
\* used more than once is bound as the element of a one-element set
\* lines 237-256 for the state st a mark sweep has left, kb the list after
\* the derive phase: leave the loop, or run the next sweep and go on
RECURSIVE closure_loop(_, _)
\* changed: the loop is left when no sentence was appended, cells marked or not
closure_pass_appends_only(st, kb, fuel) ==
    IF Len(kb) = Len(st.knowledge)
    THEN Outcome(st.mines, st.safes, kb)
    ELSE closure_loop(mark_sweep([mines |-> st.mines, safes |-> st.safes,
                                  knowledge |-> kb, changed |-> {}], 1),
                      fuel - 1)

closure_pass(st, kb, fuel) ==
    IF st.changed = {} /\ Len(kb) = Len(st.knowledge)
    THEN Outcome(st.mines, st.safes, kb)
    ELSE closure_loop(mark_sweep([mines |-> st.mines, safes |-> st.safes,
                                  knowledge |-> kb, changed |-> {}], 1),
                      fuel - 1)

closure_loop(swept, fuel) ==
    IF fuel = 0 THEN NoOutcome
    ELSE CHOOSE r \in {closure_pass(st, append_new(st.knowledge,
                                                   new_sentences(st.knowledge)),
                                    fuel) : st \in {swept}} : TRUE

\* the mark sweep under way, run to its end: the cells of `todo` first, then
\* the rest of the loop body of the sentence at idx, then the next sentences
SweepAhead ==
    LET st == [mines |-> mines, safes |-> safes, knowledge |-> knowledge,
               changed |-> cells_changed]
    IN  CASE pc = "mark" -> mark_sweep(st, idx)
          [] pc = "mines" ->
                 mark_sweep(mark_known_safes(
                                [mines |-> mines \cup todo, safes |-> safes,
                                 knowledge |-> mark_mines(knowledge, todo),
                                 changed |-> cells_changed \cup todo], idx),
                            idx + 1)
          [] pc = "safes" ->
                 mark_sweep([mines |-> mines, safes |-> safes \cup todo,
                             knowledge |-> mark_safes(knowledge, todo),
                             changed |-> cells_changed \cup todo], idx + 1)

\* what the running call leaves when it returns
Ahead ==
    IF pc = "tidy" THEN Outcome(mines, safes, knowledge)
    ELSE closure_loop(SweepAhead, MaxPasses - passes)

\* the orders of a list
Orders(kb) ==
    {[i \in 1..Len(kb) |-> kb[f[i]]] :
        f \in {g \in [1..Len(kb) -> 1..Len(kb)] :
                  \A i, j \in 1..Len(kb) : g[i] = g[j] => i = j}}

\* the closure of a call that has appended its sentence to the list kb
Closed(m, s, kb) ==
    closure_loop(mark_sweep([mines |-> m, safes |-> s, knowledge |-> kb,
                             changed |-> {}], 1), OrderPasses)

\* every order of the sentences that were in the list before the call ends
\* with the mines, safes and set of sentences of the order the list has
SameForEveryOrder ==
    LET n == Len(knowledge')
    IN  \A q \in Orders(SubSeq(knowledge', 1, n - 1)) :
            Closed(mines', safes', Append(q, knowledge'[n]))
                = Closed(mines', safes', knowledge')

\* C14, as stated: the result of add_knowledge does not depend on iteration
\* order. For the mines, safes and moves_made of the state and the (cell,
\* count) of the call, any count, every order of the sentences that were in
\* the list before the call ends with the same mines, safes and set of
\* sentences; and whatever order the cells of known_mines() and known_safes()
\* are visited in, every step of the call leaves the outcome of the call as
\* it was, and the call returns with that outcome.
C14_OrderIndependentAnyCount ==
    [][ /\ AppendsNew => SameForEveryOrder
        /\ (pc # "idle" /\ pc' # "idle") => Ahead' = Ahead
        /\ Returns => Outcome(mines', safes', knowledge') = Ahead ]_vars

\* C14, amended: in a run of add_knowledge calls whose counts are the
\* board's neighbour-mine counts, the result of a call does not depend on
\* iteration order: every order of the sentences that were in the list
\* before the call ends with the same mines, safes and set of sentences,
\* every step of the call, whichever cell of known_mines() / known_safes()
\* it takes, leaves the outcome of the call as it was, and the call returns
\* with that outcome.
C14_OrderIndependentTrueCounts ==
    [][ lies' = 0 =>
          /\ AppendsNew => SameForEveryOrder
          /\ (pc # "idle" /\ pc' # "idle") => Ahead' = Ahead
          /\ Returns => Outcome(mines', safes', knowledge') = Ahead ]_vars

\* C14 witness: a call with the board's count that started with three
\* sentences or more in the list has marked cells, gone through three passes
\* or more and left the closure loop.
C14_Witness ==
    /\ Truthful
    /\ pc = "tidy" /\ passes >= 3
    /\ mines # {} /\ safes \ moves_made # {}
    /\ Len(knowledge) >= 4
    /\ Ahead.returns

\* ---- C15
\* C15: on a fresh MinesweeperAI of height 1 and width 3,
\* add_knowledge((0,0), 0) returns with (0,1) in safes and (0,2) in neither
\* mines nor safes, and a following add_knowledge((0,1), 1) returns with
\* (0,2) in mines. The second return is told by its arguments and by the
\* moves made; the first call had count 0 when that is the board's count of
\* (0,0) and no count but the second call's differs from the board's.
C15_EndToEnd ==
    [][ (Returns /\ height = 1 /\ width = 3 /\ ext_marks = 0) =>
          /\ (arg_cell = <<0, 0>> /\ arg_count = 0 /\ moves_made = {<<0, 0>>})
             => /\ <<0, 1>> \in safes'
                /\ <<0, 2>> \notin mines' \cup safes'
          /\ ( /\ arg_cell = <<0, 1>> /\ arg_count = 1
               /\ moves_made = {<<0, 0>>, <<0, 1>>}
               /\ nearby_mines(<<0, 0>>) = 0
               /\ lies = (IF nearby_mines(<<0, 1>>) = 1 THEN 0 ELSE 1) )
             => <<0, 2>> \in mines' ]_vars

\* C15 witness: the two calls have returned on the 1x3 board.
C15_Witness ==
    /\ pc = "idle" /\ height = 1 /\ width = 3 /\ ext_marks = 0 /\ ~raised
    /\ moves_made = {<<0, 0>>, <<0, 1>>}
    /\ safes = {<<0, 0>>, <<0, 1>>}
    /\ mines = {<<0, 2>>}
    /\ knowledge = <<>>
    /\ passes >= 2

\* ---- C16
\* C16: in a run where every add_knowledge call reveals a cell that is no
\* mine of the board with the board's count, and nothing else marks cells,
\* every cell of mines is a mine of the board and no cell of safes is, during
\* and after every call; and make_safe_move() never returns a mine.
C16_Sound ==
    (Truthful /\ ext_marks = 0) =>
        /\ mines \subseteq board
        /\ safes \cap board = {}
        /\ (result.op = "make_safe_move" /\ result.value # None)
               => result.value \notin board

\* C16 witness: make_safe_move() has returned a cell in such a run, after
\* the closure has found mines and safe cells in two passes or more.
C16_Witness ==
    /\ Truthful /\ ext_marks = 0
    /\ result.op = "make_safe_move" /\ result.value # None
    /\ mines # {}
    /\ passes >= 2

\* ---- C17
\* C17: in runs of add_knowledge, mark_mine and mark_safe calls from a fresh
\* MinesweeperAI, after every call and after every single mark inside the
\* closure no sentence of the knowledge base holds a cell that is in mines or
\* in safes; and every mark of the closure takes a cell that was in neither
\* set, so no cell is marked twice, no known safe becomes a mine and no known
\* mine becomes safe there.
C17_NoKnownCellInSentences ==
    [][ /\ \A i \in 1..Len(knowledge') :
               knowledge'[i].cells \cap (mines' \cup safes') = {}
        /\ pc = "mines" =>
               \E c \in todo : /\ c \notin mines \cup safes
                                /\ mines' = mines \cup {c}
                                /\ safes' = safes
        /\ pc = "safes" =>
               \E c \in todo : /\ c \notin mines \cup safes
                                /\ safes' = safes \cup {c}
                                /\ mines' = mines ]_vars

\* C17 witness: after an outside mark, a call is marking the cells of a
\* sentence while other sentences with cells are in the knowledge base.
C17_Witness ==
    /\ ext_marks = 1
    /\ pc \in {"mines", "safes"}
    /\ cells_changed # {}
    /\ Cardinality({i \in 1..Len(knowledge) : knowledge[i].cells # {}}) >= 2

\* ---- C18
\* C18: when add_knowledge returns, whatever the counts passed, every
\* sentence left in the knowledge base has a count that is not 0 and not its
\* number of cells, so that known_mines() and known_safes() are empty for it.
C18_NothingDecidableAtReturn ==
    [][Returns =>
          \A i \in 1..Len(knowledge') :
              /\ knowledge'[i].count # 0
              /\ knowledge'[i].count # Cardinality(knowledge'[i].cells)
              /\ known_mines(knowledge'[i]) = {}
              /\ known_safes(knowledge'[i]) = {}]_vars

\* C18 witness: a call with a count that is not the board's has returned and
\* left a sentence whose count is below 0 or above its number of cells.
C18_Witness ==
    /\ pc = "idle" /\ ~raised /\ lies = 1 /\ passes >= 2
    /\ \E i \in 1..Len(knowledge) :
           \/ knowledge[i].count < 0
           \/ knowledge[i].count > Cardinality(knowledge[i].cells)

\* ---- C19
\* the step that is a call add_knowledge(cell, count), ended or not
Calls == pc = "idle" /\ moves_made' # moves_made

\* the call of the step has appended its sentence: no neighbour of the cell
\* is a known mine and a known safe, and no KeyError was raised
BuildsSentence ==
    /\ \A c \in Cells \ moves_made :
           c \in moves_made' => Around(c) \cap mines' \cap safes' = {}
    /\ ~raised'
    /\ pc' = "mark"
    /\ Len(knowledge') = Len(knowledge) + 1

\* C19, as stated: every add_knowledge call of a run of calls with a cell not
\* added before that is no mine, and any count, builds and appends its
\* sentence: no neighbour is in mines and in safes, no KeyError.
C19_BuildsAnyCount == [][Calls => BuildsSentence]_vars

\* C19, amended: every add_knowledge call of a run of calls whose counts are
\* the board's neighbour-mine counts builds and appends its sentence: no
\* neighbour is in mines and in safes, no KeyError.
C19_BuildsTrueCounts == [][(Calls /\ lies' = 0) => BuildsSentence]_vars

\* C19 witness: a call with the board's count has appended its sentence after
\* taking a known mine and a known safe out of the neighbours.
C19_Witness ==
    /\ Truthful /\ ext_marks = 0
    /\ pc = "mark" /\ passes = 0 /\ idx = 1 /\ cells_changed = {}
    /\ Around(arg_cell) \cap mines # {}
    /\ Around(arg_cell) \cap safes # {}

\* ---- C20
\* the reference closure: the mark sweep is repeated until a sweep marks
\* nothing, then the derive sweep runs, and so on until a pass marks nothing
\* and appends nothing
RECURSIVE mark_to_fixpoint(_)
mark_to_fixpoint(st) ==
    CHOOSE r \in {IF x.knowledge = st.knowledge THEN x ELSE mark_to_fixpoint(x) :
                     x \in {mark_sweep(st, 1)}} : TRUE

RECURSIVE reference_loop(_, _)
reference_pass(st, kb, fuel) ==
    IF st.changed = {} /\ Len(kb) = Len(st.knowledge)
    THEN Outcome(st.mines, st.safes, kb)
    ELSE reference_loop(mark_to_fixpoint([mines |-> st.mines, safes |-> st.safes,
                                          knowledge |-> kb, changed |-> {}]),
                        fuel - 1)

reference_loop(marked, fuel) ==
    IF fuel = 0 THEN NoOutcome
    ELSE CHOOSE r \in {reference_pass(st, append_new(st.knowledge,
                                                     new_sentences(st.knowledge)),
                                      fuel) : st \in {marked}} : TRUE

Reference(m, s, kb) ==
    reference_loop(mark_to_fixpoint([mines |-> m, safes |-> s, knowledge |-> kb,
                                     changed |-> {}]), MaxPasses)

\* the sentences a derive phase appends come from two sentences that were in
\* the list when the phase began, and the list it found is left as it was
FromSnapshot ==
    /\ SubSeq(knowledge', 1, Len(knowledge)) = knowledge
    /\ \A k \in (Len(knowledge) + 1)..Len(knowledge') :
           \E i, j \in 1..Len(knowledge) :
               /\ knowledge[i].cells \subseteq knowledge[j].cells
               /\ knowledge[i].cells # knowledge[j].cells
               /\ knowledge'[k].cells = knowledge[j].cells \ knowledge[i].cells
               /\ knowledge'[k].count = knowledge[j].count - knowledge[i].count

\* C20, as stated: the loop as coded (one mark sweep, then one derive sweep
\* over the sentences present after it, until a pass changes nothing) ends,
\* whatever the counts passed, with the mines, safes and set of sentences of
\* the reference closure that repeats the mark sweep to its fixpoint before
\* every derive sweep: the two agree on every call when it has appended its
\* sentence, the call returns with that outcome, and a derive sweep uses only
\* the sentences it found.
C20_SameAsMarkToFixpoint ==
    [][ /\ AppendsNew => Reference(mines', safes', knowledge') = Ahead'
        /\ Returns => Outcome(mines', safes', knowledge') = Ahead
        /\ EndsPass => FromSnapshot ]_vars

\* C20, amended: in a run of add_knowledge calls whose counts are the board's
\* neighbour-mine counts, the loop as coded ends with the mines, safes and
\* set of sentences of the reference closure that repeats the mark sweep to
\* its fixpoint before every derive sweep, the call returns with that
\* outcome, and a derive sweep uses only the sentences it found.
C20_SameAsMarkToFixpointTrueCounts ==
    [][ lies' = 0 =>
          /\ AppendsNew => Reference(mines', safes', knowledge') = Ahead'
          /\ Returns => Outcome(mines', safes', knowledge') = Ahead
          /\ EndsPass => FromSnapshot ]_vars

\* C20 witness: a mark sweep of a call with the board's counts is over, it has marked
\* cells, and a sentence it went past has known mines or known safes now:
\* the reference closure sweeps again here, the code derives first.
C20_Witness ==
    /\ pc = "mark"
    /\ cells_changed # {}
    /\ NextDecidable(knowledge, idx) = 0
    /\ NextDecidable(knowledge, 1) # 0
    /\ Truthful
    /\ Ahead.returns
====
